---------------------------- MODULE Spec2Model ----------------------------
(***************************************************************************)
(* Brainfuck interpreter (package bf, package cli).                        *)
(*                                                                         *)
(* The model follows one process: cli.Execute compiles a source, builds a  *)
(* Runtime and calls Runtime.Execute, which starts the run-loop goroutine  *)
(* and races its error channel against the context.  Go slices are         *)
(* 0-based; the model keeps the 0-based indices of the code as values and  *)
(* reads sequences through At.                                             *)
(***************************************************************************)
EXTENDS Integers, Sequences, FiniteSets, TLC

VARIABLES
    source,        \* bytes delivered by the sourceInput reader
    srcErr,        \* TRUE when the sourceInput reader fails before EOF
    pc,            \* position of the caller (cli.Execute / Runtime.Execute)
    ret,           \* error value returned to the caller ("none" until then)
    instructions,  \* Runtime.instructions
    cells,         \* Runtime.cells
    index,         \* Runtime.index
    instIndex,     \* Runtime.instIndex
    input,         \* bytes the input stream holds when the run starts
    inStream,      \* bytes still unread on Runtime.inStream
    outStream,     \* bytes written to Runtime.outStream
    gpc,           \* position of the run-loop goroutine
    errChan,       \* buffered values of errChan (capacity 1)
    errClosed,     \* TRUE once errChan is closed
    ctxKind,       \* "Background" (never done) or "WithTimeout"
    ctxDone,       \* TRUE once ctx.Done() is closed
    waitChan,      \* the waitChan argument of Runtime.Execute
    sent,          \* tokens the controller has sent on waitChan
    started,       \* instructions started while waitChan was open
    snap,          \* the slice a caller of Runtime.Snapshot holds
    dpc,           \* position of cli.Debug ("off" when it is not running)
    calls          \* calls of Runtime.Execute made on the Runtime

vars == <<source, srcErr, pc, ret, instructions, cells, index, instIndex,
          input, inStream, outStream, gpc, errChan, errClosed, ctxKind, ctxDone,
          waitChan, sent, started, snap, dpc, calls>>

---------------------------------------------------------------------------
(* Bounds of the model.                                                    *)

\* longest source drawn from the whole alphabet for a run
MaxLen == 3
\* longest source drawn from the whole alphabet for Compile alone
MaxSrcLen == 5
\* longest source drawn from the whole alphabet for a run under a deadline
MaxLiveLen == 2
\* longest input stream of a run under a deadline
MaxLiveIn == 1
\* longest input stream
MaxIn == 2
\* the tape stops growing at this length
MaxTape == 3
\* the output stream stops taking bytes at this length
MaxOut == 3
\* most leading '+' of the counting-loop sources
MaxPlus == 255

\* most tokens the holder of the step channel sends
MaxTokens == 3
\* longest source drawn from the whole alphabet for a stepped run
MaxStepLen == 2
\* longest input stream of a stepped run
MaxStepIn == 1

\* most passes of the run loop that the reference run follows
MaxSteps == 16
\* most calls of Runtime.Execute made on one Runtime
MaxCalls == 2

\* a byte holds 8 bits
ByteMod == 256

Byte == 0 .. (ByteMod - 1)

---------------------------------------------------------------------------
(* Values.                                                                 *)

Opcodes == {">", "<", "+", "-", ".", ",", "[", "]"}

\* "x" stands for every byte that is no opcode
SourceBytes == Opcodes \cup {"x"}

At(seq, i) == seq[i + 1]

NilError == [kind |-> "nil", cause |-> "nil"]

\* the caller has not been handed anything yet
NotReturned == [kind |-> "none", cause |-> "nil"]

DeadlineExceeded == [kind |-> "DeadlineExceeded", cause |-> "nil"]

NewError(inErr, err) == [kind |-> inErr, cause |-> err]

ErrReadSymbol == "ReadSymbolError"

ErrWriteSymbol == "WriteSymbolError"

ErrCompilation == "CompilationError"

\* a nil channel
NilChan == [kind |-> "nil", tokens |-> 0]

\* make(chan struct{}, 1) holding no token
OpenChan == [kind |-> "open", tokens |-> 0]

\* a channel closed before it holds a token
ClosedChan == [kind |-> "closed", tokens |-> 0]

\* errChan := make(chan error, 1)
ErrChanCap == 1

\* the capacity of the step channel: make(chan struct{}, 1)
GateCap == 1

\* nobody has called Runtime.Snapshot
NoSnapshot == [state |-> "none", data |-> <<>>, shared |-> FALSE]

\* fault: '+' is compiled to the decrement instruction
InstrSwapped(c) ==
    [cmd |-> IF c = "+" THEN "-" ELSE c, EndLoopIndex |-> 0,
     StartLoopIndex |-> 0]

\* a Go instruction value: the zero value of both loop fields is 0
Instr(c) == [cmd |-> c, EndLoopIndex |-> 0, StartLoopIndex |-> 0]

Cmd(i) == i.cmd

---------------------------------------------------------------------------
(* Compile (bf/bf.go:319-367).                                             *)

\* fault: the matched '[' stays on the stack
PopLoopOffsetKeep(loopOffsets) == loopOffsets

\* the slice without its last element: loopOffsets[:len(loopOffsets)-1]
PopLoopOffset(loopOffsets) == SubSeq(loopOffsets, 1, Len(loopOffsets) - 1)


\* fault: EndLoopIndex is the index after the ']'
PatchEndLoopPastEnd(instrs, s) ==
    [instrs EXCEPT ![s + 1].EndLoopIndex = Len(instrs) + 1]

\* startLoopInstruction.EndLoopIndex = len(instructions), through the pointer
\* held in the slice at StartLoopIndex
PatchEndLoop(instrs, s) ==
    [instrs EXCEPT ![s + 1].EndLoopIndex = Len(instrs)]


\* fault: a byte that is no opcode is appended as an instruction
CompileByteKeepingComments(st, b) ==
    IF st.panicked THEN st
    ELSE IF b = "[" THEN
        [st EXCEPT !.instructions = Append(st.instructions, Instr("[")),
                   !.loopOffsets = Append(st.loopOffsets, Len(st.instructions))]
    ELSE IF b = "]" THEN
        IF Len(st.loopOffsets) = 0 THEN [st EXCEPT !.panicked = TRUE]
        ELSE LET s == st.loopOffsets[Len(st.loopOffsets)]
                 endLoopInstruction == [Instr("]") EXCEPT !.StartLoopIndex = s]
             IN  [st EXCEPT
                    !.instructions =
                        Append(PatchEndLoop(st.instructions, s), endLoopInstruction),
                    !.loopOffsets = PopLoopOffset(st.loopOffsets)]
    ELSE [st EXCEPT !.instructions = Append(st.instructions, Instr(b))]

\* the body of the loop over p.Bytes() for one byte b; st.panicked records
\* the index-out-of-range panic of loopOffsets[len(loopOffsets)-1] on an
\* empty slice
CompileByte(st, b) ==
    IF st.panicked THEN st
    ELSE IF b = "[" THEN
        [st EXCEPT !.instructions = Append(st.instructions, Instr("[")),
                   !.loopOffsets = Append(st.loopOffsets, Len(st.instructions))]
    ELSE IF b = "]" THEN
        IF Len(st.loopOffsets) = 0 THEN [st EXCEPT !.panicked = TRUE]
        ELSE LET s == st.loopOffsets[Len(st.loopOffsets)]
                 endLoopInstruction == [Instr("]") EXCEPT !.StartLoopIndex = s]
             IN  [st EXCEPT
                    !.instructions =
                        Append(PatchEndLoop(st.instructions, s), endLoopInstruction),
                    !.loopOffsets = PopLoopOffset(st.loopOffsets)]
    ELSE IF b \in Opcodes THEN
        [st EXCEPT !.instructions = Append(st.instructions, Instr(b))]
    ELSE st

\* for i := range p.Bytes(): the bytes lo .. hi of src in order, starting
\* from st (the range is halved to keep the evaluation shallow)
RECURSIVE CompileBytes(_, _, _, _)
CompileBytes(src, lo, hi, st) ==
    IF lo > hi THEN st
    ELSE IF lo = hi THEN CompileByte(st, src[lo])
    ELSE LET mid == (lo + hi) \div 2
             left == CompileBytes(src, lo, mid, st)
         IN  IF left.panicked THEN left
             ELSE CompileBytes(src, mid + 1, hi, left)


\* fault: the error of ReadFrom is dropped and the bytes read are compiled
CompileResultOfBytesRead(src, readFails) ==
    LET st == CompileBytes(src, 1, Len(src),
                  [instructions |-> <<>>, loopOffsets |-> <<>>,
                   panicked |-> FALSE])
    IN  IF st.panicked
        THEN [outcome |-> "panic", err |-> NilError, instructions |-> <<>>]
        ELSE [outcome |-> "ok", err |-> NilError,
              instructions |-> st.instructions]

\* what Compile hands back: an error value, a program, or a panic
CompileResult(src, readFails) ==
    IF readFails
    THEN [outcome |-> "error", err |-> NewError(ErrCompilation, "read error"),
          instructions |-> <<>>]
    ELSE LET st == CompileBytes(src, 1, Len(src),
                     [instructions |-> <<>>, loopOffsets |-> <<>>,
                      panicked |-> FALSE])
         IN  IF st.panicked
             THEN [outcome |-> "panic", err |-> NilError, instructions |-> <<>>]
             ELSE [outcome |-> "ok", err |-> NilError,
                   instructions |-> st.instructions]

---------------------------------------------------------------------------
(* Runtime methods (bf/bf.go:65-134).                                      *)

\* a Go slice access cells[index] panics unless 0 <= index < len(cells)
InRange(i, seq) == i >= 0 /\ i < Len(seq)

\* fault: growing the tape starts it over, every cell zero
RuntimeNextCleared(c, i) ==
    IF i + 1 = Len(c)
    THEN [cells |-> [k \in 1 .. Len(c) + 1 |-> 0], index |-> i + 1]
    ELSE [cells |-> c, index |-> i + 1]

\* fault: the tape is not grown
RuntimeNextNoGrow(c, i) == [index |-> i + 1, cells |-> c]

\* Runtime.Next: the new index and the tape, grown by one zero cell when the
\* index reaches len(cells)
RuntimeNext(c, i) ==
    [index |-> i + 1,
     cells |-> IF i + 1 = Len(c) THEN Append(c, 0) ELSE c]

\* Runtime.Prev: no check against 0
RuntimePrev(i) == i - 1

\* fault: the byte sticks at 255
RuntimeIncSaturating(v) == IF v = ByteMod - 1 THEN v ELSE v + 1

\* Runtime.Inc: cells[index]++ on a byte
RuntimeInc(v) == (v + 1) % ByteMod

\* Runtime.Dec: cells[index]-- on a byte
RuntimeDec(v) == (v - 1) % ByteMod

\* fault: the last instruction is never run
HasNextButLast(i, instrs) == i < Len(instrs) - 1

\* defaultBFIterator.HasNext
HasNext(i, instrs) == i < Len(instrs)

---------------------------------------------------------------------------
(* Sources and input streams the runs are started with.                    *)

Seqs(S, n) == UNION {[1 .. k -> S] : k \in 0 .. n}

Repeat(b, n) == [k \in 1 .. n |-> b]

\* +++>++
ScenarioA == <<"+", "+", "+", ">", "+", "+">>

\* n times '+', then [->+<]
PlusLoop(n) == Repeat("+", n) \o <<"[", "-", ">", "+", "<", "]">>

\* ,.
ScenarioC == <<",", ".">>

\* +[]
ScenarioE == <<"+", "[", "]">>

InBytes == {0, 65, 255}

\* bytes a holder of a snapshot writes into it
SnapBytes == {7}

Range(seq) == {seq[k] : k \in 1 .. Len(seq)}

\* a source without ',' never touches the input stream
InStreamsFor(src, n) ==
    IF "," \in Range(src) THEN Seqs(InBytes, n) ELSE {<<>>}

InitRuntimeWith(sources, kinds, n, chans) ==
    /\ source \in sources
    /\ input \in InStreamsFor(source, n)
    /\ srcErr \in BOOLEAN
    /\ pc = "Compile"
    /\ ret = NotReturned
    /\ instructions = <<>>
    /\ cells = <<>>
    /\ index = 0
    /\ instIndex = 0
    /\ inStream = input
    /\ outStream = <<>>
    /\ gpc = "unborn"
    /\ errChan = <<>>
    /\ errClosed = FALSE
    /\ ctxKind \in kinds
    /\ ctxDone = FALSE
    /\ waitChan \in chans
    /\ sent = 0
    /\ started = 0
    /\ snap = NoSnapshot
    /\ dpc = "off"
    /\ calls = 0

\* cli.Execute passes a nil waitChan
InitWith(sources, kinds, n) == InitRuntimeWith(sources, kinds, n, {NilChan})

\* sources longer than MaxLen that loop, nest, grow the tape, copy input or
\* skip a nested loop
LoopSources ==
    { <<"+", "[", "+", "]">>,
      <<"-", "[", "-", "]">>,
      <<"+", "[", ">", "+", "]">>,
      <<"+", "[", "[", "-", "]", "]">>,
      <<",", "[", ".", ",", "]">>,
      <<"[", "[", "+", "]", "]", "+">> }

Sources ==
    Seqs(SourceBytes, MaxLen) \cup {ScenarioA, PlusLoop(3)} \cup LoopSources

Init == InitWith(Sources, {"Background", "WithTimeout"}, MaxIn)

\* a panic on any goroutine ends the process
Crashed == pc = "panicked" \/ gpc = "panicked" \/ dpc = "panicked"

---------------------------------------------------------------------------
(* Runtime.Snapshot (bf/bf.go:104-110).  A slice value is its bytes and    *)
(* whether it shares its backing array with Runtime.cells.                 *)

\* fault: the tape itself is handed out
SnapshotAlias(c) == [state |-> "taken", data |-> c, shared |-> TRUE]

\* snapshot := make([]byte, len(r.cells)); copy(snapshot, r.cells)
Snapshot(c) == [state |-> "taken", data |-> c, shared |-> FALSE]

\* what the holder of the slice s reads once the tape has become c: a slice
\* on the tape's backing array sees the write, a copy does not
WrittenThrough(s, c) ==
    IF s.shared THEN [s EXCEPT !.data = SubSeq(c, 1, Len(s.data))] ELSE s

---------------------------------------------------------------------------
(* cli.Execute (cli/execute.go:12-20).                                     *)

\* instructions, err := bf.Compile(in); if err != nil { return err }
CliCompile ==
    /\ pc = "Compile"
    /\ LET res == CompileResult(source, srcErr) IN
          \/ /\ res.outcome = "ok"
             /\ instructions' = res.instructions
             /\ pc' = "NewRuntime"
             /\ ret' = ret
          \/ /\ res.outcome = "error"
             /\ ret' = res.err
             /\ pc' = "returned"
             /\ instructions' = instructions
          \/ /\ res.outcome = "panic"
             /\ pc' = "panicked"
             /\ UNCHANGED <<ret, instructions>>
    /\ UNCHANGED <<calls,
                   dpc, input, source, srcErr, waitChan, sent, started, snap,
                   cells, index, instIndex, inStream,
                   outStream, gpc, errChan, errClosed, ctxKind, ctxDone>>

\* fault: the Runtime is built without its first cell
NewRuntimeNoCell ==
    /\ pc = "NewRuntime"
    /\ cells' = <<>>
    /\ index' = 0
    /\ instIndex' = 0
    /\ pc' = "Execute"
    /\ UNCHANGED <<calls,
                   dpc, input, source, srcErr, waitChan, sent, started, snap,
                   ret, instructions, inStream, outStream,
                   gpc, errChan, errClosed, ctxKind, ctxDone>>

\* NewRuntime (bf/bf.go:303-316)
NewRuntime ==
    /\ pc = "NewRuntime"
    /\ cells' = <<0>>
    /\ index' = 0
    /\ instIndex' = 0
    /\ pc' = "Execute"
    /\ UNCHANGED <<calls,
                   dpc, input, source, srcErr, waitChan, sent, started, snap,
                   ret, instructions, inStream, outStream,
                   gpc, errChan, errClosed, ctxKind, ctxDone>>

---------------------------------------------------------------------------
(* Runtime.Execute, the caller's side (bf/bf.go:158-185).                  *)

\* errChan := make(chan error, 1); go func ...
ExecuteStart ==
    /\ pc = "Execute"
    /\ errChan' = <<>>
    /\ errClosed' = FALSE
    /\ gpc' = "HasNext"
    /\ pc' = "select"
    /\ calls' = calls + 1
    /\ UNCHANGED <<dpc, input, source, srcErr, waitChan, sent, started, snap,
                   ret, instructions, cells, index,
                   instIndex, inStream, outStream, ctxKind, ctxDone>>

\* the deadline of the context elapses; nothing reads the context once the
\* caller has returned
Deadline ==
    /\ ctxKind = "WithTimeout"
    /\ ~ctxDone
    /\ ~Crashed
    /\ pc # "returned"
    /\ ctxDone' = TRUE
    /\ UNCHANGED <<calls,
                   dpc, input, source, srcErr, waitChan, sent, started, snap,
                   pc, ret, instructions, cells, index,
                   instIndex, inStream, outStream, gpc, errChan, errClosed,
                   ctxKind>>

\* fault: the context is looked at only once the run loop has ended
SelectCtxDoneAfterRun ==
    /\ pc = "select"
    /\ ~Crashed
    /\ ctxDone
    /\ gpc = "exited"
    /\ ret' = DeadlineExceeded
    /\ pc' = "returned"
    /\ UNCHANGED <<calls,
                   dpc, input, source, srcErr, waitChan, sent, started, snap,
                   instructions, cells, index, instIndex,
                   inStream, outStream, gpc, errChan, errClosed, ctxKind,
                   ctxDone>>

\* case <-ctx.Done(): return context.DeadlineExceeded
SelectCtxDone ==
    /\ pc = "select"
    /\ ~Crashed
    /\ ctxDone
    /\ ret' = DeadlineExceeded
    /\ pc' = "returned"
    /\ UNCHANGED <<calls,
                   dpc, input, source, srcErr, waitChan, sent, started, snap,
                   instructions, cells, index, instIndex,
                   inStream, outStream, gpc, errChan, errClosed, ctxKind,
                   ctxDone>>

\* fault: the receive does not wait for the run loop; an empty errChan
\* yields nil at once
SelectErrChanNoWait ==
    /\ pc = "select"
    /\ ~Crashed
    /\ \/ /\ errChan # <<>>
          /\ ret' = Head(errChan)
          /\ errChan' = Tail(errChan)
       \/ /\ errChan = <<>>
          /\ ret' = NilError
          /\ errChan' = errChan
    /\ pc' = "returned"
    /\ UNCHANGED <<calls,
                   dpc, input, source, srcErr, waitChan, sent, started, snap,
                   instructions, cells, index, instIndex,
                   inStream, outStream, gpc, errClosed, ctxKind, ctxDone>>

\* case err := <-errChan: return err  (a closed, drained channel yields nil)
SelectErrChan ==
    /\ pc = "select"
    /\ ~Crashed
    /\ \/ /\ errChan # <<>>
          /\ ret' = Head(errChan)
          /\ errChan' = Tail(errChan)
       \/ /\ errChan = <<>>
          /\ errClosed
          /\ ret' = NilError
          /\ errChan' = errChan
    /\ pc' = "returned"
    /\ UNCHANGED <<calls,
                   dpc, input, source, srcErr, waitChan, sent, started, snap,
                   instructions, cells, index, instIndex,
                   inStream, outStream, gpc, errClosed, ctxKind, ctxDone>>

---------------------------------------------------------------------------
(* The run-loop goroutine (bf/bf.go:160-175) and the instructions          *)
(* (bf/bf.go:187-301).  One action is one pass of the loop body for one    *)
(* kind of instruction: it.Next (fetch, then Jump(instIndex + 1)) followed *)
(* by instruction.Execute.                                                 *)

\* Runtime.Instruction (bf/bf.go:113-115)
Instruction == At(instructions, instIndex)


\* fault: errChan is left open when the loop runs out of instructions
IteratorHasNextNoClose ==
    /\ gpc = "HasNext"
    /\ ~Crashed
    /\ \/ /\ HasNext(instIndex, instructions)
          /\ gpc' = IF waitChan = NilChan THEN "Execute" ELSE "wait"
       \/ /\ ~HasNext(instIndex, instructions)
          /\ gpc' = "exited"
    /\ UNCHANGED <<calls,
                   dpc, input, source, srcErr, waitChan, sent, started, snap,
                   pc, ret,
                   instructions, cells, index, instIndex, inStream, outStream,
                   errChan, errClosed, ctxKind, ctxDone>>

\* the loop condition it.HasNext(r), then "if waitChan != nil"; on exit the
\* deferred close(errChan)
IteratorHasNext ==
    /\ gpc = "HasNext"
    /\ ~Crashed
    /\ \/ /\ HasNext(instIndex, instructions)
          /\ gpc' = IF waitChan = NilChan THEN "Execute" ELSE "wait"
          /\ errClosed' = errClosed
       \/ /\ ~HasNext(instIndex, instructions)
          /\ gpc' = "exited"
          /\ errClosed' = TRUE
    /\ UNCHANGED <<calls,
                   dpc, input, source, srcErr, waitChan, sent, started, snap,
                   pc, ret, instructions, cells, index,
                   instIndex, inStream, outStream, errChan, ctxKind, ctxDone>>

\* fault: the deferred Jump skips an instruction
IteratorNextSkipping(ip) == ip + 2

\* defaultBFIterator.Next: defer r.Jump(r.instIndex + 1), the instruction
\* index once Next has returned
IteratorNext(ip) == ip + 1

\* the loop body is about to run the instruction of kind c
Fetching(c) ==
    /\ gpc = "Execute"
    /\ ~Crashed
    /\ Cmd(Instruction) = c
    /\ started' = IF waitChan.kind = "open" THEN started + 1 ELSE started


\* fault: the error is sent and the loop goes on
FailWithAndGoOn(err) ==
    /\ errChan' = Append(errChan, err)
    /\ errClosed' = errClosed
    /\ gpc' = "HasNext"

\* fault: errChan has no buffer, the send needs the caller in its select
FailWithUnbuffered(err) ==
    /\ pc = "select"
    /\ errChan' = Append(errChan, err)
    /\ errClosed' = TRUE
    /\ gpc' = "exited"

\* errChan <- err; return  (with the deferred close); the send blocks while
\* the buffer of errChan is full
FailWith(err) ==
    /\ Len(errChan) < ErrChanCap
    /\ errChan' = Append(errChan, err)
    /\ errClosed' = TRUE
    /\ gpc' = "exited"

\* '>'  the tape stops growing at MaxTape cells
ExecuteNextCell ==
    /\ Fetching(">")
    /\ LET r == RuntimeNext(cells, index) IN
          /\ Len(r.cells) <= MaxTape
          /\ cells' = r.cells
          /\ index' = r.index
    /\ instIndex' = IteratorNext(instIndex)
    /\ gpc' = "HasNext"
    /\ UNCHANGED <<calls,
                   dpc, input, source, srcErr, waitChan, sent, snap,
                   pc, ret, instructions, inStream,
                   outStream, errChan, errClosed, ctxKind, ctxDone>>

\* '<'
ExecutePrevCell ==
    /\ Fetching("<")
    /\ index' = RuntimePrev(index)
    /\ instIndex' = IteratorNext(instIndex)
    /\ gpc' = "HasNext"
    /\ UNCHANGED <<calls,
                   dpc, input, source, srcErr, waitChan, sent, snap,
                   pc, ret, instructions, cells, inStream,
                   outStream, errChan, errClosed, ctxKind, ctxDone>>

\* '+'
ExecuteIncValue ==
    /\ Fetching("+")
    /\ instIndex' = IteratorNext(instIndex)
    /\ \/ /\ InRange(index, cells)
          /\ cells' = [cells EXCEPT ![index + 1] = RuntimeInc(@)]
          /\ gpc' = "HasNext"
       \/ /\ ~InRange(index, cells)
          /\ gpc' = "panicked"
          /\ cells' = cells
    /\ snap' = WrittenThrough(snap, cells')
    /\ UNCHANGED <<calls,
                   dpc, input, source, srcErr, waitChan, sent,
                   pc, ret, instructions, index, inStream,
                   outStream, errChan, errClosed, ctxKind, ctxDone>>

\* '-'
ExecuteDecValue ==
    /\ Fetching("-")
    /\ instIndex' = IteratorNext(instIndex)
    /\ \/ /\ InRange(index, cells)
          /\ cells' = [cells EXCEPT ![index + 1] = RuntimeDec(@)]
          /\ gpc' = "HasNext"
       \/ /\ ~InRange(index, cells)
          /\ gpc' = "panicked"
          /\ cells' = cells
    /\ snap' = WrittenThrough(snap, cells')
    /\ UNCHANGED <<calls,
                   dpc, input, source, srcErr, waitChan, sent,
                   pc, ret, instructions, index, inStream,
                   outStream, errChan, errClosed, ctxKind, ctxDone>>


\* fault: '[' never jumps
StartLoopTargetNoJump(i, v, next) == next


\* fault: '[' jumps to the last instruction of the loop body
StartLoopTargetBeforeEnd(i, v, next) ==
    IF v = 0 THEN i.EndLoopIndex - 1 ELSE next

\* the instruction index after '[' has run: Jump(EndLoopIndex) on a zero cell
StartLoopTarget(i, v, next) == IF v = 0 THEN i.EndLoopIndex ELSE next

\* fault: the test of ']' is inverted
EndLoopTargetOnZero(i, v, next) == IF v = 0 THEN i.StartLoopIndex ELSE next


\* fault: ']' jumps back whatever the cell holds
EndLoopTargetAlways(i, v, next) == i.StartLoopIndex

\* the instruction index after ']' has run: Jump(StartLoopIndex) on a
\* nonzero cell
EndLoopTarget(i, v, next) == IF v > 0 THEN i.StartLoopIndex ELSE next

\* '['
ExecuteStartLoop ==
    /\ Fetching("[")
    /\ \/ /\ InRange(index, cells)
          /\ instIndex' =
                StartLoopTarget(Instruction, At(cells, index),
                                IteratorNext(instIndex))
          /\ gpc' = "HasNext"
       \/ /\ ~InRange(index, cells)
          /\ instIndex' = IteratorNext(instIndex)
          /\ gpc' = "panicked"
    /\ UNCHANGED <<calls,
                   dpc, input, source, srcErr, waitChan, sent, snap,
                   pc, ret, instructions, cells, index,
                   inStream, outStream, errChan, errClosed, ctxKind, ctxDone>>

\* ']'
ExecuteEndLoop ==
    /\ Fetching("]")
    /\ \/ /\ InRange(index, cells)
          /\ instIndex' =
                EndLoopTarget(Instruction, At(cells, index),
                              IteratorNext(instIndex))
          /\ gpc' = "HasNext"
       \/ /\ ~InRange(index, cells)
          /\ instIndex' = IteratorNext(instIndex)
          /\ gpc' = "panicked"
    /\ UNCHANGED <<calls,
                   dpc, input, source, srcErr, waitChan, sent, snap,
                   pc, ret, instructions, cells, index,
                   inStream, outStream, errChan, errClosed, ctxKind, ctxDone>>


\* fault: the byte is written twice
PrintedTwice(v) == <<v, v>>

\* the bytes Runtime.Print hands to the writer: []byte{r.Value()}
Printed(v) == <<v>>

\* fault: the writer's error is returned as it came
PrintErrorUnwrapped(err) == [kind |-> "other", cause |-> err]

\* InstructionPrint.Execute on a failed Print: NewError(ErrWriteSymbol, err)
PrintError(err) == NewError(ErrWriteSymbol, err)

\* '.'  the writer either takes the byte or fails; the output stream stops
\* at MaxOut bytes
ExecutePrint ==
    /\ Fetching(".")
    /\ Len(outStream) < MaxOut
    /\ instIndex' = IteratorNext(instIndex)
    /\ \/ /\ InRange(index, cells)
          /\ outStream' = outStream \o Printed(At(cells, index))
          /\ gpc' = "HasNext"
          /\ UNCHANGED <<errChan, errClosed>>
       \/ /\ InRange(index, cells)
          /\ FailWith(PrintError("write error"))
          /\ outStream' = outStream
       \/ /\ ~InRange(index, cells)
          /\ gpc' = "panicked"
          /\ UNCHANGED <<outStream, errChan, errClosed>>
    /\ UNCHANGED <<calls,
                   dpc, input, source, srcErr, waitChan, sent, snap,
                   pc, ret, instructions, cells, index,
                   inStream, ctxKind, ctxDone>>

\* fault: the reader hands out the same byte again
UnreadNothing(stream) == stream

\* the input stream once Read has taken one byte from it
Unread(stream) == Tail(stream)

\* fault: the byte is changed on its way to the cell
StoredOffByOne(b) == (b + 1) % ByteMod

\* the value Runtime.Read stores for the byte b it has read
Stored(b) == b

\* fault: the buffer b is stored before the error is looked at
AfterFailedReadStoring(c, i) ==
    IF InRange(i, c) THEN [c EXCEPT ![i + 1] = 0] ELSE c

\* the tape after inStream.Read returned an error: Runtime.Read returns the
\* error before the store
AfterFailedRead(c, i) == c

\* ','  the reader delivers its next byte, fails at the end of the stream, or
\* fails before it; the byte is taken from the stream before cells[index] is
\* written
ExecuteRead ==
    /\ Fetching(",")
    /\ instIndex' = IteratorNext(instIndex)
    /\ \/ /\ inStream # <<>>
          /\ InRange(index, cells)
          /\ inStream' = Unread(inStream)
          /\ cells' = [cells EXCEPT ![index + 1] = Stored(Head(inStream))]
          /\ gpc' = "HasNext"
          /\ UNCHANGED <<errChan, errClosed>>
       \/ /\ inStream # <<>>
          /\ ~InRange(index, cells)
          /\ inStream' = Unread(inStream)
          /\ gpc' = "panicked"
          /\ UNCHANGED <<cells, errChan, errClosed>>
       \/ /\ inStream = <<>>
          /\ FailWith(NewError(ErrReadSymbol, "EOF"))
          /\ cells' = AfterFailedRead(cells, index)
          /\ inStream' = inStream
       \/ /\ inStream # <<>>
          /\ FailWith(NewError(ErrReadSymbol, "read error"))
          /\ cells' = AfterFailedRead(cells, index)
          /\ inStream' = inStream
    /\ snap' = WrittenThrough(snap, cells')
    /\ UNCHANGED <<calls,
                   dpc, input, source, srcErr, waitChan, sent,
                   pc, ret, instructions, index, outStream,
                   ctxKind, ctxDone>>

---------------------------------------------------------------------------
(* The step channel (bf/bf.go:163-165, cli/debug.go:69, 109-110).          *)


\* fault: the loop does not wait for a token that is not there
WaitTokenNoBlock ==
    /\ gpc = "wait"
    /\ ~Crashed
    /\ waitChan' = [waitChan EXCEPT !.tokens = IF @ > 0 THEN @ - 1 ELSE 0]
    /\ gpc' = "Execute"
    /\ UNCHANGED <<calls,
                   dpc, input, source, srcErr, sent, started, snap, pc, ret,
                   instructions, cells, index, instIndex, inStream, outStream,
                   errChan, errClosed, ctxKind, ctxDone>>


\* fault: a closed step channel ends the run loop
WaitTokenEndsOnClose ==
    /\ gpc = "wait"
    /\ ~Crashed
    /\ \/ /\ waitChan.tokens > 0
          /\ waitChan' = [waitChan EXCEPT !.tokens = @ - 1]
          /\ gpc' = "Execute"
          /\ errClosed' = errClosed
       \/ /\ waitChan.tokens = 0
          /\ waitChan.kind = "closed"
          /\ waitChan' = waitChan
          /\ gpc' = "exited"
          /\ errClosed' = TRUE
    /\ UNCHANGED <<calls,
                   dpc, input, source, srcErr, sent, started, snap, pc, ret,
                   instructions, cells, index, instIndex, inStream, outStream,
                   errChan, ctxKind, ctxDone>>


\* fault: the receive waits for a token on a closed channel too
WaitTokenOpenOnly ==
    /\ gpc = "wait"
    /\ ~Crashed
    /\ waitChan.tokens > 0
    /\ waitChan' = [waitChan EXCEPT !.tokens = @ - 1]
    /\ gpc' = "Execute"
    /\ UNCHANGED <<calls,
                   dpc, input, source, srcErr, sent, started, snap, pc, ret,
                   instructions, cells, index, instIndex, inStream, outStream,
                   errChan, errClosed, ctxKind, ctxDone>>

\* <-waitChan: takes a token of an open channel, or falls through a closed
\* one
WaitToken ==
    /\ gpc = "wait"
    /\ ~Crashed
    /\ \/ /\ waitChan.tokens > 0
          /\ waitChan' = [waitChan EXCEPT !.tokens = @ - 1]
       \/ /\ waitChan.tokens = 0
          /\ waitChan.kind = "closed"
          /\ waitChan' = waitChan
    /\ gpc' = "Execute"
    /\ UNCHANGED <<calls,
                   dpc, input, source, srcErr, sent, started, snap, pc, ret,
                   instructions, cells, index, instIndex, inStream, outStream,
                   errChan, errClosed, ctxKind, ctxDone>>

\* waitChan <- struct{}{} by the holder of the channel; at most MaxTokens
\* tokens are sent
SendToken ==
    /\ waitChan.kind = "open"
    /\ ~Crashed
    /\ pc \notin {"Compile", "NewRuntime", "Execute"}
    /\ waitChan.tokens < GateCap
    /\ sent < MaxTokens
    /\ waitChan' = [waitChan EXCEPT !.tokens = @ + 1]
    /\ sent' = sent + 1
    /\ UNCHANGED <<calls,
                   dpc, input, source, srcErr, started, snap, pc, ret,
                   instructions,
                   cells, index, instIndex, inStream, outStream, gpc, errChan,
                   errClosed, ctxKind, ctxDone>>

\* close(waitChan) by the holder of the channel; tokens sent before stay
\* in the channel
CloseGate ==
    /\ waitChan.kind = "open"
    /\ ~Crashed
    /\ pc \notin {"Compile", "NewRuntime", "Execute"}
    /\ waitChan' = [waitChan EXCEPT !.kind = "closed"]
    /\ UNCHANGED <<calls,
                   dpc, input, source, srcErr, sent, started, snap, pc, ret,
                   instructions, cells, index, instIndex, inStream, outStream,
                   gpc, errChan, errClosed, ctxKind, ctxDone>>

---------------------------------------------------------------------------
(* A holder of the Runtime calls Snapshot while the run loop is not inside *)
(* an instruction, and later writes into the slice it was handed.          *)

TakeSnapshot ==
    /\ cells # <<>>
    /\ ~Crashed
    /\ gpc \in {"unborn", "wait", "exited"}
    /\ snap.state = "none"
    /\ snap' = Snapshot(cells)
    /\ UNCHANGED <<calls,
                   dpc, input, source, srcErr, waitChan, sent, started, pc,
                   ret,
                   instructions, cells, index, instIndex, inStream, outStream,
                   gpc, errChan, errClosed, ctxKind, ctxDone>>

\* snapshot[k] = v
MutateSnapshot ==
    /\ snap.state = "taken"
    /\ ~Crashed
    /\ gpc \in {"unborn", "wait", "exited"}
    /\ \E k \in 1 .. Len(snap.data), v \in SnapBytes :
          /\ snap' = [snap EXCEPT !.state = "mutated", !.data[k] = v]
          /\ cells' = IF snap.shared THEN [cells EXCEPT ![k] = v] ELSE cells
    /\ UNCHANGED <<calls,
                   dpc, input, source, srcErr, waitChan, sent, started, pc,
                   ret,
                   instructions, index, instIndex, inStream, outStream, gpc,
                   errChan, errClosed, ctxKind, ctxDone>>

---------------------------------------------------------------------------
(* Runtime.Execute called again on the same Runtime once the call before   *)
(* has returned and its run loop has ended (bf/bf.go:158-185): a new       *)
(* errChan and a new goroutine, every field of the Runtime as it was left. *)

\* fault: the call starts the program over
ExecuteAgainFromStart ==
    /\ pc = "returned"
    /\ gpc = "exited"
    /\ calls < MaxCalls
    /\ errChan' = <<>>
    /\ errClosed' = FALSE
    /\ gpc' = "HasNext"
    /\ pc' = "select"
    /\ ret' = NotReturned
    /\ calls' = calls + 1
    /\ instIndex' = 0
    /\ UNCHANGED <<dpc, input, source, srcErr, waitChan, sent, started, snap,
                   instructions, cells, index, inStream, outStream,
                   ctxKind, ctxDone>>

ExecuteAgain ==
    /\ pc = "returned"
    /\ gpc = "exited"
    /\ calls < MaxCalls
    /\ errChan' = <<>>
    /\ errClosed' = FALSE
    /\ gpc' = "HasNext"
    /\ pc' = "select"
    /\ ret' = NotReturned
    /\ calls' = calls + 1
    /\ UNCHANGED <<dpc, input, source, srcErr, waitChan, sent, started, snap,
                   instructions, cells, index, instIndex, inStream, outStream,
                   ctxKind, ctxDone>>

---------------------------------------------------------------------------
(* cli.Debug (cli/debug.go:68-112): the controller of a stepped run.  It   *)
(* starts Execute on a goroutine of its own, whose returned error nobody   *)
(* reads, and then renders, waits for a key and sends a token, for ever.   *)

\* the positions at which the controller renders and waits for keys
DebugLive == {"render", "key", "send"}

\* waitChan := make(chan struct{}, 1); go r.Execute(context.Background(),
\* waitChan)
DebugStart ==
    /\ pc = "Execute"
    /\ dpc = "ready"
    /\ errChan' = <<>>
    /\ errClosed' = FALSE
    /\ gpc' = "HasNext"
    /\ pc' = "select"
    /\ dpc' = "render"
    /\ calls' = calls + 1
    /\ UNCHANGED <<input, source, srcErr, waitChan, sent, started, snap, ret,
                   instructions, cells, index, instIndex, inStream, outStream,
                   ctxKind, ctxDone>>

\* the rendering; r.Instruction() indexes instructions with instIndex and
\* panics once the run loop has moved past the last instruction
DebugRender ==
    /\ dpc = "render"
    /\ ~Crashed
    /\ dpc' = IF InRange(instIndex, instructions) THEN "key" ELSE "panicked"
    /\ UNCHANGED <<calls,
                   input, source, srcErr, waitChan, sent, started, snap, pc,
                   ret, instructions, cells, index, instIndex, inStream,
                   outStream, gpc, errChan, errClosed, ctxKind, ctxDone>>

\* os.Stdin.Read(b) returns: a key was pressed
DebugKey ==
    /\ dpc = "key"
    /\ ~Crashed
    /\ sent < MaxTokens
    /\ dpc' = "send"
    /\ UNCHANGED <<calls,
                   input, source, srcErr, waitChan, sent, started, snap, pc,
                   ret, instructions, cells, index, instIndex, inStream,
                   outStream, gpc, errChan, errClosed, ctxKind, ctxDone>>

\* waitChan <- struct{}{} blocks while the channel is full
DebugSend ==
    /\ dpc = "send"
    /\ ~Crashed
    /\ waitChan.tokens < GateCap
    /\ waitChan' = [waitChan EXCEPT !.tokens = @ + 1]
    /\ sent' = sent + 1
    /\ dpc' = "render"
    /\ UNCHANGED <<calls,
                   input, source, srcErr, started, snap, pc, ret, instructions,
                   cells, index, instIndex, inStream, outStream, gpc, errChan,
                   errClosed, ctxKind, ctxDone>>

---------------------------------------------------------------------------

Next ==
    \/ CliCompile
    \/ NewRuntime
    \/ ExecuteStart
    \/ Deadline
    \/ SelectCtxDone
    \/ SelectErrChan
    \/ IteratorHasNext
    \/ ExecuteNextCell
    \/ ExecutePrevCell
    \/ ExecuteIncValue
    \/ ExecuteDecValue
    \/ ExecuteStartLoop
    \/ ExecuteEndLoop
    \/ ExecutePrint
    \/ ExecuteRead

Spec == Init /\ [][Next]_vars

\* Runs under a context made with a timeout.  The scheduler runs the caller,
\* a select with a ready case is taken, and the deadline elapses.
InitLive ==
    InitWith(Seqs(SourceBytes, MaxLiveLen) \cup {ScenarioE}, {"WithTimeout"},
             MaxLiveIn)

LiveSpec ==
    /\ InitLive
    /\ [][Next]_vars
    /\ WF_vars(CliCompile \/ NewRuntime \/ ExecuteStart)
    /\ WF_vars(Deadline)
    /\ WF_vars(SelectCtxDone \/ SelectErrChan)

---------------------------------------------------------------------------
(* Compile alone, on every source of at most MaxSrcLen bytes.              *)

InitCompile == InitWith(Seqs(SourceBytes, MaxSrcLen), {"Background"}, 0)

NextCompile == CliCompile

SpecCompile == InitCompile /\ [][NextCompile]_vars

---------------------------------------------------------------------------
(* The counting loops n times '+' then [->+<], n up to MaxPlus, run to the *)
(* end under a context that is never cancelled.                            *)

InitLoop == InitWith({PlusLoop(n) : n \in 0 .. MaxPlus}, {"Background"}, 0)

NextLoop ==
    \/ CliCompile
    \/ NewRuntime
    \/ ExecuteStart
    \/ SelectErrChan
    \/ IteratorHasNext
    \/ ExecuteNextCell
    \/ ExecutePrevCell
    \/ ExecuteIncValue
    \/ ExecuteDecValue
    \/ ExecuteStartLoop
    \/ ExecuteEndLoop

SpecLoop == InitLoop /\ [][NextLoop]_vars

---------------------------------------------------------------------------
(* Runs with every goroutine scheduled: the caller, the select with a      *)
(* ready case, the deadline of a timeout context, and the run loop.        *)

RunLoop ==
    \/ IteratorHasNext
    \/ ExecuteNextCell
    \/ ExecutePrevCell
    \/ ExecuteIncValue
    \/ ExecuteDecValue
    \/ ExecuteStartLoop
    \/ ExecuteEndLoop
    \/ ExecutePrint
    \/ ExecuteRead

InitFair ==
    InitWith(Seqs(SourceBytes, MaxLiveLen) \cup {ScenarioA, ScenarioE},
             {"Background", "WithTimeout"}, MaxLiveIn)

FairSpec ==
    /\ InitFair
    /\ [][Next]_vars
    /\ WF_vars(CliCompile \/ NewRuntime \/ ExecuteStart)
    /\ WF_vars(Deadline)
    /\ WF_vars(SelectCtxDone \/ SelectErrChan)
    /\ WF_vars(RunLoop)

---------------------------------------------------------------------------
(* Stepped runs: Execute is handed a step channel, open or closed already, *)
(* whose holder sends tokens and takes a snapshot of the tape.             *)

InitStep ==
    InitRuntimeWith(Seqs(SourceBytes, MaxStepLen) \cup {ScenarioE},
                    {"Background", "WithTimeout"}, MaxStepIn,
                    {OpenChan, ClosedChan})

NextStep ==
    \/ Next
    \/ WaitToken
    \/ SendToken
    \/ TakeSnapshot
    \/ MutateSnapshot

SpecStep == InitStep /\ [][NextStep]_vars

---------------------------------------------------------------------------
(* Runs with any of the three kinds of step channel, nil, open and closed, *)
(* whose holder may close an open one at any time, under a context that    *)
(* is never done.                                                          *)

\* -[+]
ScenarioLoop == <<"-", "[", "+", "]">>

InitGate ==
    InitRuntimeWith(Seqs(SourceBytes, MaxStepLen) \cup {ScenarioLoop},
                    {"Background"}, MaxStepIn,
                    {NilChan, OpenChan, ClosedChan})

NextGate ==
    \/ CliCompile
    \/ NewRuntime
    \/ ExecuteStart
    \/ SelectErrChan
    \/ RunLoop
    \/ WaitToken
    \/ SendToken
    \/ CloseGate


\* the same runs with the caller, its select and the run loop scheduled;
\* nothing makes the holder of the channel send or close
FairGateSpec ==
    /\ InitGate
    /\ [][NextGate]_vars
    /\ WF_vars(CliCompile \/ NewRuntime \/ ExecuteStart)
    /\ WF_vars(SelectErrChan)
    /\ WF_vars(WaitToken \/ RunLoop)

SpecGate == InitGate /\ [][NextGate]_vars

---------------------------------------------------------------------------
(* Runs whose caller calls Execute again on the same Runtime.              *)

InitAgain ==
    InitWith(Seqs(SourceBytes, MaxStepLen), {"Background", "WithTimeout"},
             MaxStepIn)

NextAgain ==
    \/ Next
    \/ ExecuteAgain

SpecAgain == InitAgain /\ [][NextAgain]_vars

---------------------------------------------------------------------------
(* Runs under cli.Debug.  The scheduler runs every goroutine that can take *)
(* a step; nothing makes the user press a key.                             *)

InitDebug ==
    /\ source \in Seqs(SourceBytes, MaxStepLen) \cup {ScenarioE}
    /\ input \in InStreamsFor(source, MaxStepIn)
    /\ srcErr \in BOOLEAN
    /\ pc = "Compile"
    /\ ret = NotReturned
    /\ instructions = <<>>
    /\ cells = <<>>
    /\ index = 0
    /\ instIndex = 0
    /\ inStream = input
    /\ outStream = <<>>
    /\ gpc = "unborn"
    /\ errChan = <<>>
    /\ errClosed = FALSE
    /\ ctxKind = "Background"
    /\ ctxDone = FALSE
    /\ waitChan = OpenChan
    /\ sent = 0
    /\ started = 0
    /\ snap = NoSnapshot
    /\ dpc = "ready"
    /\ calls = 0

NextDebug ==
    \/ CliCompile
    \/ NewRuntime
    \/ DebugStart
    \/ DebugRender
    \/ DebugKey
    \/ DebugSend
    \/ SelectErrChan
    \/ WaitToken
    \/ RunLoop

DebugSpec ==
    /\ InitDebug
    /\ [][NextDebug]_vars
    /\ WF_vars(CliCompile \/ NewRuntime \/ DebugStart)
    /\ WF_vars(DebugRender \/ DebugSend)
    /\ WF_vars(SelectErrChan)
    /\ WF_vars(WaitToken \/ RunLoop)

---------------------------------------------------------------------------
(* Bracket matching of a source, stated on its opcodes alone.              *)

IsOpcode(b) == b \in Opcodes

\* the opcode bytes of a source, in order
Ops(src) == SelectSeq(src, IsOpcode)

\* '[' minus ']' among the first k opcodes
Depth(ops, k) ==
    Cardinality({j \in 1 .. k : ops[j] = "["})
        - Cardinality({j \in 1 .. k : ops[j] = "]"})

Balanced(ops) ==
    /\ \A k \in 1 .. Len(ops) : Depth(ops, k) >= 0
    /\ Depth(ops, Len(ops)) = 0

\* some ']' has no '[' open before it
UnmatchedClose(ops) == \E k \in 1 .. Len(ops) : Depth(ops, k) < 0

\* no unmatched ']', and some '[' still open at the end
UnclosedOpen(ops) ==
    /\ \A k \in 1 .. Len(ops) : Depth(ops, k) >= 0
    /\ Depth(ops, Len(ops)) > 0

\* the '[' at opcode index s and the ']' at opcode index e (0-based) match:
\* e is the first place after s where the depth is back to what it was
\* before s
Matched(ops, s, e) ==
    /\ s < e
    /\ At(ops, s) = "["
    /\ At(ops, e) = "]"
    /\ Depth(ops, e + 1) = Depth(ops, s)
    /\ \A k \in (s + 1) .. e : Depth(ops, k) > Depth(ops, s)

\* Compile has handed a program back to cli.Execute
Compiled == pc \notin {"Compile", "panicked"} /\ ret.kind # ErrCompilation

ProgramIndexes == 0 .. (Len(instructions) - 1)

---------------------------------------------------------------------------
(* C1.  For a source whose brackets are balanced, the compiled program has *)
(* one instruction per opcode, and for every matched pair (s, e) of        *)
(* instruction indexes program[s] is a '[' with EndLoopIndex = e,          *)
(* program[e] is a ']' with StartLoopIndex = s, and the start lies before  *)
(* the end.                                                                *)
C1_LoopTargetsResolved ==
    (Compiled /\ Balanced(Ops(source))) =>
        /\ Len(instructions) = Len(Ops(source))
        /\ \A s, e \in ProgramIndexes :
              Matched(Ops(source), s, e) =>
                  /\ Cmd(At(instructions, s)) = "["
                  /\ At(instructions, s).EndLoopIndex = e
                  /\ Cmd(At(instructions, e)) = "]"
                  /\ At(instructions, e).StartLoopIndex = s
                  /\ At(instructions, e).StartLoopIndex
                        < At(instructions, s).EndLoopIndex

\* a compiled source with a loop nested in a loop and a comment byte
C1_Witness ==
    /\ Compiled
    /\ Balanced(Ops(source))
    /\ Len(source) > Len(Ops(source))
    /\ \E s, e, t, f \in ProgramIndexes :
          /\ s < t
          /\ f < e
          /\ Matched(Ops(source), s, e)
          /\ Matched(Ops(source), t, f)

(* C2.  A source with a ']' that no '[' precedes makes Compile return an   *)
(* error of kind CompilationError to cli.Execute, which then builds no     *)
(* engine.                                                                 *)
C2_UnmatchedCloseIsCompilationError ==
    (pc # "Compile" /\ ~srcErr /\ UnmatchedClose(Ops(source))) =>
        /\ pc = "returned"
        /\ ret.kind = ErrCompilation
        /\ cells = <<>>

(* C3.  A source that ends with a '[' still open makes Compile fail with   *)
(* CompilationError: no program is handed back in which a '[' keeps the    *)
(* end index it was created with.                                          *)
C3_UnclosedOpenIsCompilationError ==
    (pc # "Compile" /\ ~srcErr /\ UnclosedOpen(Ops(source))) =>
        /\ pc = "returned"
        /\ ret.kind = ErrCompilation
        /\ instructions = <<>>

---------------------------------------------------------------------------
(* Steps of the run loop, as seen from outside.                            *)

\* this step runs an instruction of kind c, which returns
Ran(c) ==
    /\ gpc = "Execute"
    /\ Cmd(Instruction) = c
    /\ gpc' = "HasNext"

\* the error the run loop ended with, wherever it is by now
RunError ==
    IF errChan # <<>> THEN Head(errChan)
    ELSE IF ret.kind \in {ErrReadSymbol, ErrWriteSymbol} THEN ret
    ELSE NilError

\* the run loop has run out of instructions
RunCompleted == gpc = "exited" /\ RunError = NilError

(* C4.  In every state of a run the cell pointer indexes the tape:         *)
(* 0 <= index < len(cells), also when '<' runs with the pointer at 0.      *)
C4_PointerIndexesTape == (gpc # "unborn") => InRange(index, cells)

(* C5.  '+' sets the current cell to v + 1 and '-' to v - 1, modulo 256:   *)
(* 255 becomes 0 under '+', 0 becomes 255 under '-'; every cell stays in   *)
(* 0 .. 255.                                                               *)
C5_ByteWraparound ==
    [][ /\ Ran("+") =>
              cells' = [cells EXCEPT ![index + 1] =
                            IF @ = ByteMod - 1 THEN 0 ELSE @ + 1]
        /\ Ran("-") =>
              cells' = [cells EXCEPT ![index + 1] =
                            IF @ = 0 THEN ByteMod - 1 ELSE @ - 1]
        /\ \A k \in 1 .. Len(cells') : cells'[k] \in 0 .. (ByteMod - 1)
      ]_vars

\* '-' on 0 then '+' on 255
C5_Witness ==
    /\ source = <<"-", "+">>
    /\ RunCompleted
    /\ cells = <<0>>

(* C6.  '>' at the rightmost cell appends one zero cell and keeps the      *)
(* others; '>' elsewhere keeps the tape; no step shrinks the tape or grows *)
(* it by more than one cell.                                               *)
C6_TapeGrowsByOne ==
    [][ /\ (Ran(">") /\ index = Len(cells) - 1) => cells' = Append(cells, 0)
        /\ (Ran(">") /\ index # Len(cells) - 1) => cells' = cells
        /\ Len(cells') >= Len(cells)
        /\ Len(cells') <= Len(cells) + 1
      ]_vars

\* the first '>' grew the tape, the second did not
C6_Witness ==
    /\ source = <<">", "<", ">">>
    /\ RunCompleted
    /\ cells = <<0, 0>>
    /\ index = 1

\* the number of leading '+' of a counting-loop source
LeadingPlus == Len(source) - 6

\* instructions a counting loop still has to run from instruction index i
\* with the first cell at c: each pass of the loop is six instructions, and
\* the last '[' jumps to its ']'
LoopRemaining(i, c) ==
    LET n == LeadingPlus
        k == i - n
    IN  IF k < 0 THEN (n - i) + 6 * ((c + n - i) % ByteMod) + 2
        ELSE IF k = 0 THEN 6 * c + 2
        ELSE IF k = 1 THEN 6 * c + 1
        ELSE IF k = 2 THEN 6 * c + 6
        ELSE IF k = 3 THEN 6 * c + 5
        ELSE IF k = 4 THEN 6 * c + 4
        ELSE IF k = 5 THEN (IF c = 0 THEN 1 ELSE 6 * c + 3)
        ELSE 0

\* steps left until the caller of a counting loop is handed its result
LoopRank ==
    LET caller == CASE pc = "Compile" -> 4
                    [] pc = "NewRuntime" -> 3
                    [] pc = "Execute" -> 2
                    [] pc = "select" -> 1
                    [] OTHER -> 0
        loop == CASE gpc = "unborn" -> 2 * LoopRemaining(0, 0) + 1
                  [] gpc = "HasNext" ->
                        2 * LoopRemaining(instIndex, cells[1]) + 1
                  [] gpc = "Execute" -> 2 * LoopRemaining(instIndex, cells[1])
                  [] OTHER -> 0
    IN  caller + loop

(* C7.  n times '+' followed by [->+<], run on a fresh engine, returns     *)
(* success with the tape [0, n] for n in 1 .. 255 (n = 3: [0, 3]); with    *)
(* the first cell back at 0 before the loop the tape stays [0].  The run   *)
(* ends: it does not panic, it can take a step until the caller has its    *)
(* result, and every step brings that result nearer.                       *)
C7_CountingLoop ==
    [][ /\ ~Crashed'
        /\ LoopRank' < LoopRank
        /\ LoopRank' >= 0
        /\ (pc' # "returned") => (ENABLED NextLoop)'
        /\ (pc' = "returned" /\ ~srcErr) =>
              /\ ret' = NilError
              /\ index' = 0
              /\ cells' = IF LeadingPlus % ByteMod = 0 THEN <<0>>
                          ELSE <<0, LeadingPlus % ByteMod>>
      ]_vars

C7_Witness ==
    /\ source = PlusLoop(3)
    /\ pc = "returned"
    /\ ret = NilError
    /\ cells = <<0, 3>>

(* C8.  +++>++ on a fresh engine ends in success with the tape [3, 2] and  *)
(* the cell pointer at 1: the run does not panic or fail, it can take a    *)
(* step until the caller has its result, and the result is success.        *)
C8_ScenarioA ==
    (source = ScenarioA /\ ~srcErr) =>
        /\ ~Crashed
        /\ pc # "returned" => ENABLED Next
        /\ RunError = NilError
        /\ gpc = "exited" => (cells = <<3, 2>> /\ index = 1)
        /\ (pc = "returned" /\ ret # DeadlineExceeded) =>
              (ret = NilError /\ cells = <<3, 2>> /\ index = 1)

C8_Witness ==
    /\ source = ScenarioA
    /\ pc = "returned"
    /\ ret = NilError
    /\ cells = <<3, 2>>
    /\ index = 1

(* C9.  ,. with an input stream that starts with the byte b writes one     *)
(* byte, b, to the output stream; nothing else is ever written.            *)
C9_EchoOneByte ==
    (source = ScenarioC /\ ~srcErr /\ input # <<>>) =>
        /\ ~Crashed
        /\ outStream \in {<<>>, <<input[1]>>}
        /\ RunCompleted => outStream = <<input[1]>>

C9_Witness ==
    /\ source = ScenarioC
    /\ input = <<65>>
    /\ pc = "returned"
    /\ ret = NilError
    /\ outStream = <<65>>

(* C10.  +[] under a context whose deadline elapses: Execute returns, and  *)
(* it returns context.DeadlineExceeded.  The same for every run that never *)
(* ends: a caller waiting in the select leaves it, and what a caller is    *)
(* handed while the run loop is still running is DeadlineExceeded.         *)
C10_DeadlineEndsTheWait ==
    /\ (source = ScenarioE /\ ~srcErr /\ ctxKind = "WithTimeout") =>
            <>(pc = "returned" /\ ret = DeadlineExceeded)
    /\ (ctxKind = "WithTimeout" /\ pc = "select") ~>
            (pc = "returned" \/ Crashed)
    /\ []((pc = "returned" /\ gpc \in {"HasNext", "Execute"}) =>
            ret = DeadlineExceeded)

C10_Witness ==
    /\ source = ScenarioE
    /\ pc = "returned"
    /\ ret = DeadlineExceeded
    /\ gpc = "Execute"
    /\ cells = <<1>>

(* C11 as stated.  Once the run loop has ended on an instruction's error   *)
(* and Execute has returned, what Execute returned is that error.          *)
C11_FailureIsReturned ==
    (pc = "returned" /\ RunError # NilError) => ret = RunError

(* C11.  Once an instruction has failed, the run executes no later         *)
(* instruction: tape, pointer, instruction index and both streams stay as  *)
(* they are.  Execute returns that instruction's error, unless the context *)
(* is done: then it may return DeadlineExceeded in its place.              *)
C11_FailureEndsTheRun ==
    [][ /\ (RunError # NilError) =>
              /\ gpc = "exited"
              /\ UNCHANGED <<cells, index, instIndex, inStream, outStream, gpc>>
        /\ (pc' = "returned" /\ RunError' # NilError) =>
              \/ ret' = RunError'
              \/ ctxDone' /\ ret' = DeadlineExceeded
        /\ (pc' = "returned" /\ RunError' # NilError /\ ~ctxDone') =>
              ret' = RunError'
      ]_vars

C11_Witness ==
    /\ source = <<",", "+">>
    /\ pc = "returned"
    /\ ret = NewError(ErrReadSymbol, "EOF")
    /\ gpc = "exited"
    /\ HasNext(instIndex, instructions)
    /\ cells = <<0>>

(* C12.  Without a step channel and under a context that is never done, a  *)
(* run whose loop runs out of instructions with no instruction failing     *)
(* makes Execute return nil, and by then instIndex = len(instructions).    *)
(* +++>++ is such a run: its Execute returns nil.                          *)
C12_HaltingRunReturnsNil ==
    /\ (ctxKind = "Background" /\ RunCompleted) ~>
            (pc = "returned" /\ ret = NilError
                /\ instIndex = Len(instructions))
    /\ (source = ScenarioA /\ ~srcErr /\ ctxKind = "Background") =>
            <>(pc = "returned" /\ ret = NilError
                /\ instIndex = Len(instructions))
    /\ []((ctxKind = "Background" /\ pc = "returned" /\ ret = NilError) =>
            (gpc = "exited" /\ instIndex = Len(instructions)))

C12_Witness ==
    /\ source = ScenarioA
    /\ ctxKind = "Background"
    /\ waitChan = NilChan
    /\ pc = "returned"
    /\ ret = NilError
    /\ instIndex = Len(instructions)
    /\ cells = <<3, 2>>

\* the run loop is at a ',' whose read fails: the step ends the loop
FailedRead ==
    /\ gpc = "Execute"
    /\ Cmd(Instruction) = ","
    /\ gpc' = "exited"

(* C13.  A ',' whose reader returns an error, at the end of the stream or  *)
(* before it, fails with an error of kind ReadSymbolError that carries the *)
(* reader's error, and leaves the tape and the pointer as they were.  At   *)
(* the end of the stream ',' always fails so, with io.EOF as the cause.    *)
C13_FailedReadKeepsCell ==
    [][ /\ FailedRead =>
              /\ errChan' \in { <<NewError(ErrReadSymbol, "EOF")>>,
                                <<NewError(ErrReadSymbol, "read error")>> }
              /\ cells' = cells
              /\ index' = index
              /\ inStream' = inStream
        /\ (gpc = "Execute" /\ Cmd(Instruction) = "," /\ inStream = <<>>
                /\ gpc' # gpc) =>
              /\ FailedRead
              /\ errChan' = <<NewError(ErrReadSymbol, "EOF")>>
      ]_vars

C13_Witness ==
    /\ source = <<",", ",">>
    /\ input = <<65>>
    /\ gpc = "exited"
    /\ errChan = <<NewError(ErrReadSymbol, "EOF")>>
    /\ cells = <<65>>
    /\ index = 0

\* the run loop is at a '.' whose write fails: the step ends the loop
FailedPrint ==
    /\ gpc = "Execute"
    /\ Cmd(Instruction) = "."
    /\ gpc' = "exited"

(* C14.  A '.' whose writer returns an error fails with an error of kind   *)
(* WriteSymbolError that carries the writer's error, and leaves the tape   *)
(* and the pointer as they were.                                           *)
C14_FailedPrintKeepsTape ==
    [][ FailedPrint =>
            /\ errChan' = <<NewError(ErrWriteSymbol, "write error")>>
            /\ errClosed'
            /\ cells' = cells
            /\ index' = index
      ]_vars

C14_Witness ==
    /\ source = <<"+", ".">>
    /\ gpc = "exited"
    /\ errChan = <<NewError(ErrWriteSymbol, "write error")>>
    /\ cells = <<1>>
    /\ index = 0
    /\ outStream = <<>>

(* C15.  When reading the source returns an error before the end of the    *)
(* stream, Compile returns an error of kind CompilationError carrying it   *)
(* and no program, whatever bytes were read before the error.              *)
C15_FailedSourceReadIsCompilationError ==
    (srcErr /\ pc # "Compile") =>
        /\ pc = "returned"
        /\ ret = NewError(ErrCompilation, "read error")
        /\ instructions = <<>>
        /\ gpc = "unborn"

C15_Witness ==
    /\ srcErr
    /\ source = <<"+", "[", "-", "]", ".">>
    /\ pc = "returned"
    /\ ret.kind = ErrCompilation
    /\ instructions = <<>>

(* C16.  Compile of a source is Compile of its opcode bytes alone: the     *)
(* same outcome and the same program, one instruction for each opcode byte *)
(* in order, with loop indices that are indices of the program.            *)
C16_CommentsAreIgnored ==
    (pc # "Compile" /\ ~srcErr) =>
        LET stripped == CompileResult(Ops(source), FALSE) IN
            /\ (pc = "panicked") <=> (stripped.outcome = "panic")
            /\ (pc # "panicked") =>
                  /\ stripped.outcome = "ok"
                  /\ instructions = stripped.instructions
                  /\ Len(instructions) = Len(Ops(source))
                  /\ \A i \in ProgramIndexes :
                        /\ Cmd(At(instructions, i)) = At(Ops(source), i)
                        /\ At(instructions, i).EndLoopIndex \in
                                {0} \cup ProgramIndexes
                        /\ At(instructions, i).StartLoopIndex \in
                                {0} \cup ProgramIndexes

C16_Witness ==
    /\ source = <<"[", "x", "-", "x", "]">>
    /\ ~srcErr
    /\ pc = "NewRuntime"
    /\ Len(instructions) = 3
    /\ At(instructions, 0).EndLoopIndex = 2
    /\ At(instructions, 2).StartLoopIndex = 0

(* C17.  Snapshot hands out a copy of the tape: the slice holds the tape   *)
(* of the moment of the call, a write into the slice leaves the tape as it *)
(* is, and no later step of the run changes the slice.                     *)
C17_SnapshotIsACopy ==
    [][ /\ (snap.state = "none" /\ snap'.state = "taken") =>
              /\ snap'.data = cells
              /\ cells' = cells
        /\ (snap.state = "taken" /\ snap'.state = "mutated") =>
              /\ cells' = cells
              /\ index' = index
        /\ (snap.state # "none" /\ snap'.state = snap.state) =>
              snap'.data = snap.data
      ]_vars

\* a snapshot taken after the first '+', written to, and the second '+' run
C17_Witness ==
    /\ source = <<"+", "+">>
    /\ snap.state = "mutated"
    /\ snap.data = <<7>>
    /\ cells = <<2>>
    /\ gpc = "exited"

\* tokens the run loop has received and not yet spent on an instruction
TokenInHand == IF gpc = "Execute" THEN 1 ELSE 0

(* C18.  While the step channel is open, every instruction the run loop    *)
(* starts has taken one token: instructions started, the token in hand and *)
(* the tokens still in the channel add up to the tokens sent, so no more   *)
(* instructions start than tokens were sent; and a loop with no token to   *)
(* take changes nothing of the Runtime.                                    *)
C18_OneTokenPerInstruction ==
    [][ /\ (waitChan'.kind = "open") =>
              /\ started' + TokenInHand' + waitChan'.tokens = sent'
              /\ started' <= sent'
        /\ (waitChan.kind = "open" /\ waitChan.tokens = 0
                /\ gpc \in {"HasNext", "wait"}) =>
              /\ UNCHANGED <<cells, index, instIndex, inStream, outStream,
                             started>>
              /\ gpc' # "Execute"
      ]_vars

\* ++ stepped to its end by two tokens
C18_Witness ==
    /\ source = <<"+", "+">>
    /\ waitChan.kind = "open"
    /\ sent = 2
    /\ started = 2
    /\ cells = <<2>>
    /\ gpc = "exited"

(* C19.  Once Execute has returned, with nil, with an instruction's error  *)
(* or with DeadlineExceeded, no instruction runs any more: the tape, the   *)
(* pointer and the instruction index stay as they are.                     *)
C19_NothingRunsAfterReturn ==
    [][ (pc = "returned") =>
            /\ UNCHANGED <<cells, index, instIndex, inStream, outStream>>
            /\ ~(gpc = "Execute" /\ gpc' # gpc)
      ]_vars

(* C20.  When Execute has returned the error of the instruction at index f *)
(* and is called again on the same Runtime, the new run does not stand at  *)
(* f + 1 with instructions to run on the tape and the pointer of the       *)
(* failed run.                                                             *)
C20_NoResumeAfterFailure ==
    [][ (pc = "returned" /\ pc' = "select"
            /\ ret.kind \in {ErrReadSymbol, ErrWriteSymbol}) =>
            LET f == instIndex - 1 IN
                ~ /\ Cmd(At(instructions, f)) \in {",", "."}
                  /\ instIndex' = f + 1
                  /\ HasNext(instIndex', instructions)
                  /\ cells' = cells
                  /\ index' = index
      ]_vars

---------------------------------------------------------------------------
(* C21.  Under cli.Debug, a run that ends with an instruction's error gets *)
(* the controller out of its loop of rendering and waiting for keys: the   *)
(* controller comes to a position where it has been handed the error.      *)
C21_DebugSeesFailure ==
    (dpc # "off" /\ RunError # NilError) ~>
        (dpc \notin DebugLive /\ ~Crashed)

---------------------------------------------------------------------------
(* The run loop with a nil waitChan as a function (bf/bf.go:163-174): the  *)
(* state a Runtime ends in, given the program, the input stream, and how   *)
(* many writes and reads succeed before the writer and the reader fail     *)
(* (-1: they never do).                                                    *)

RunStart(in) ==
    [cells |-> <<0>>, index |-> 0, instIndex |-> 0, inStream |-> in,
     outStream |-> <<>>, state |-> "running", err |-> NilError]

\* one pass of the loop body
RunStep(instrs, st, env) ==
    LET i == At(instrs, st.instIndex)
        c == Cmd(i)
        inr == InRange(st.index, st.cells)
        moved == [st EXCEPT !.instIndex = IteratorNext(st.instIndex)]
        panic == [moved EXCEPT !.state = "panicked"]
        taken == Len(env.input) - Len(st.inStream)
    IN  IF c = ">" THEN
            LET r == RuntimeNext(st.cells, st.index)
            IN  [moved EXCEPT !.cells = r.cells, !.index = r.index]
        ELSE IF c = "<" THEN [moved EXCEPT !.index = RuntimePrev(st.index)]
        ELSE IF c = "+" THEN
            IF inr THEN [moved EXCEPT !.cells[st.index + 1] = RuntimeInc(@)]
            ELSE panic
        ELSE IF c = "-" THEN
            IF inr THEN [moved EXCEPT !.cells[st.index + 1] = RuntimeDec(@)]
            ELSE panic
        ELSE IF c = "[" THEN
            IF inr
            THEN [st EXCEPT !.instIndex =
                    StartLoopTarget(i, At(st.cells, st.index),
                                    IteratorNext(st.instIndex))]
            ELSE panic
        ELSE IF c = "]" THEN
            IF inr
            THEN [st EXCEPT !.instIndex =
                    EndLoopTarget(i, At(st.cells, st.index),
                                  IteratorNext(st.instIndex))]
            ELSE panic
        ELSE IF c = "." THEN
            IF ~inr THEN panic
            ELSE IF Len(st.outStream) = env.writes
            THEN [moved EXCEPT !.state = "exited",
                               !.err = PrintError("write error")]
            ELSE [moved EXCEPT
                    !.outStream = @ \o Printed(At(st.cells, st.index))]
        ELSE IF st.inStream = <<>>
            THEN [moved EXCEPT !.state = "exited",
                               !.err = NewError(ErrReadSymbol, "EOF")]
        ELSE IF taken = env.reads
            THEN [moved EXCEPT !.state = "exited",
                               !.err = NewError(ErrReadSymbol, "read error")]
        ELSE IF ~inr THEN [panic EXCEPT !.inStream = Unread(@)]
        ELSE [moved EXCEPT
                !.inStream = Unread(@),
                !.cells[st.index + 1] = Stored(Head(st.inStream))]

\* the loop, for at most fuel passes
RECURSIVE RunToEnd(_, _, _, _)
RunToEnd(instrs, st, env, fuel) ==
    IF st.state # "running" \/ fuel = 0 THEN st
    ELSE IF ~HasNext(st.instIndex, instrs) THEN [st EXCEPT !.state = "exited"]
    ELSE LET next == RunStep(instrs, st, env)
         IN  IF next.state = "running"
             THEN RunToEnd(instrs, next, env, fuel - 1)
             ELSE next

\* the writer and the reader as this run has met them
RunEnv ==
    [input |-> input,
     writes |-> IF RunError = PrintError("write error")
                THEN Len(outStream) ELSE -1,
     reads |-> IF RunError = NewError(ErrReadSymbol, "read error")
               THEN Len(input) - Len(inStream) ELSE -1]

\* the run loop has ended, by its exit or by a panic
RunEnded == gpc \in {"exited", "panicked"}

(* C22.  A run that has ended, whatever its step channel (nil, open with   *)
(* the tokens it needed, or closed), has ended as the run loop without a   *)
(* step channel ends on the same program, input, writer and reader: the    *)
(* same error or panic, output, tape, pointer and instruction index.       *)
C22_SteppedRunIsTheSameRun ==
    RunEnded =>
        LET ref == RunToEnd(instructions, RunStart(input), RunEnv, MaxSteps)
        IN  /\ ref.state = gpc
            /\ ref.err = RunError
            /\ ref.outStream = outStream
            /\ ref.cells = cells
            /\ ref.index = index
            /\ ref.instIndex = instIndex
            /\ ref.inStream = inStream

\* -[+] stepped by three tokens and let go by the closing of the channel
C22_Witness ==
    /\ source = ScenarioLoop
    /\ waitChan.kind = "closed"
    /\ sent = MaxTokens
    /\ started = MaxTokens
    /\ RunCompleted
    /\ cells = <<0>>

(* C23.  Once the step channel is closed the run loop does not stay at its *)
(* receive and no token is sent any more; a run of a program without loops *)
(* then comes to its end, and the halting loop -[+] runs to completion and *)
(* Execute returns nil.                                                    *)
C23_ClosedGateLetsTheRunGo ==
    /\ (waitChan.kind = "closed" /\ gpc = "wait") ~> (gpc # "wait")
    /\ [][(waitChan.kind = "closed") =>
            (sent' = sent /\ waitChan'.kind = "closed")]_vars
    /\ (waitChan.kind = "closed" /\ gpc # "unborn"
            /\ "[" \notin Range(source)) ~> RunEnded
    /\ (waitChan.kind = "closed" /\ gpc # "unborn"
            /\ source = ScenarioLoop) ~>
                (RunCompleted /\ pc = "returned" /\ ret = NilError)

\* as in the test: one token, then the channel is closed
C23_Witness ==
    /\ source = ScenarioLoop
    /\ waitChan.kind = "closed"
    /\ sent = 1
    /\ RunCompleted
    /\ pc = "returned"
    /\ ret = NilError

---------------------------------------------------------------------------
(* C24.  '[' at index s, run once Next has moved the instruction index to  *)
(* s + 1: on a zero cell the index becomes EndLoopIndex, on any other cell *)
(* it stays s + 1; the tape and the pointer are not touched.               *)
C24_StartLoopJumpsOnZero ==
    [][ Ran("[") =>
            /\ (At(cells, index) = 0) =>
                    instIndex' = Instruction.EndLoopIndex
            /\ (At(cells, index) # 0) => instIndex' = instIndex + 1
            /\ UNCHANGED <<cells, index, inStream, outStream>>
      ]_vars

\* [+] on the fresh tape: '[' has jumped to its ']'
C24_Witness ==
    /\ source = <<"[", "+", "]">>
    /\ gpc = "HasNext"
    /\ instIndex = 2
    /\ cells = <<0>>

(* C25.  ']' at index e, run once Next has moved the instruction index to  *)
(* e + 1: on a nonzero cell the index becomes StartLoopIndex, on a zero    *)
(* cell it stays e + 1; the tape and the pointer are not touched.          *)
C25_EndLoopJumpsOnNonZero ==
    [][ Ran("]") =>
            /\ (At(cells, index) # 0) =>
                    instIndex' = Instruction.StartLoopIndex
            /\ (At(cells, index) = 0) => instIndex' = instIndex + 1
            /\ UNCHANGED <<cells, index, inStream, outStream>>
      ]_vars

\* -[-] after its first pass: ']' has jumped back to '['
C25_Witness ==
    /\ source = <<"-", "[", "-", "]">>
    /\ gpc = "HasNext"
    /\ instIndex = 1
    /\ cells = <<254>>

(* C26.  In a program with balanced brackets a loop is a while loop.  '['  *)
(* at s on a zero cell hands control to its matching ']' at e or past it,  *)
(* never to an instruction between them; ']' at e hands control to e + 1   *)
(* only on a zero cell, and to s otherwise; and between two instructions   *)
(* of the run nothing moves the instruction index, the tape or the         *)
(* pointer, so the skipped body does not run before control is at e + 1.   *)
C26_WhileSemantics ==
    [][ /\ (Ran("[") /\ At(cells, index) = 0 /\ Balanced(Ops(source))) =>
              /\ \E e \in ProgramIndexes :
                    /\ Matched(Ops(source), instIndex, e)
                    /\ instIndex' \in {e, e + 1}
              /\ cells' = cells
              /\ index' = index
        /\ (Ran("]") /\ instIndex' = instIndex + 1
                /\ Balanced(Ops(source))) =>
              /\ At(cells, index) = 0
              /\ cells' = cells
              /\ index' = index
        /\ (Ran("]") /\ instIndex' # instIndex + 1
                /\ Balanced(Ops(source))) =>
              Matched(Ops(source), instIndex', instIndex)
        /\ (gpc \in {"HasNext", "wait", "exited"}) =>
              UNCHANGED <<instIndex, cells, index>>
      ]_vars

\* [[+]]+ on the fresh tape: the outer '[' has skipped the nested loop, its
\* ']' has let control out, and the '+' after the loop has run
C26_Witness ==
    /\ source = <<"[", "[", "+", "]", "]", "+">>
    /\ gpc = "exited"
    /\ RunCompleted
    /\ cells = <<1>>

(* C27.  The default iterator.  HasNext holds exactly when instIndex is    *)
(* below len(instructions) and changes nothing.  Next hands out the        *)
(* instruction at instIndex and leaves instIndex one higher: the           *)
(* instruction that runs is the one at the index Next was called at, and   *)
(* after it the index is one higher unless the instruction is a loop       *)
(* bracket that has jumped.                                                *)
C27_DefaultIterator ==
    [][ /\ (gpc = "HasNext" /\ gpc' # gpc) =>
              /\ (gpc' = "Execute") <=> (instIndex < Len(instructions))
              /\ (gpc' = "exited") <=> (instIndex >= Len(instructions))
              /\ UNCHANGED <<cells, index, instIndex, inStream, outStream>>
        /\ (gpc = "Execute" /\ gpc' # gpc) =>
              LET c == Cmd(At(instructions, instIndex)) IN
                  /\ instIndex \in ProgramIndexes
                  /\ (c \notin {"[", "]"}) => instIndex' = instIndex + 1
                  /\ (c = "[") =>
                        instIndex' \in {instIndex + 1, Instruction.EndLoopIndex}
                  /\ (c = "]") =>
                        instIndex' \in
                            {instIndex + 1, Instruction.StartLoopIndex}
                  /\ (index' # index) => c \in {">", "<"}
                  /\ (outStream' # outStream) => c = "."
                  /\ (inStream' # inStream) => c = ","
                  /\ (cells' # cells) => c \in {">", "+", "-", ","}
      ]_vars

\* +++>++ with its '>' at index 3 just run
C27_Witness ==
    /\ source = ScenarioA
    /\ gpc = "HasNext"
    /\ instIndex = 4
    /\ cells = <<3, 0>>
    /\ index = 1

(* C28.  In every state of a run of a program Compile has handed back,     *)
(* 0 <= instIndex <= len(instructions), every loop index held by a '[' or  *)
(* a ']' is an index of the program, and the instruction the run loop is   *)
(* about to fetch is inside the program.                                   *)
C28_InstructionIndexInProgram ==
    (gpc # "unborn") =>
        /\ instIndex \in 0 .. Len(instructions)
        /\ \A i \in ProgramIndexes :
              Cmd(At(instructions, i)) \in {"[", "]"} =>
                  /\ At(instructions, i).EndLoopIndex \in ProgramIndexes
                  /\ At(instructions, i).StartLoopIndex \in ProgramIndexes
        /\ (gpc \in {"Execute", "wait"}) => instIndex \in ProgramIndexes

\* [] on the fresh tape: both brackets have run and the index is at the end
C28_Witness ==
    /\ source = <<"[", "]">>
    /\ gpc = "exited"
    /\ instIndex = Len(instructions)
    /\ At(instructions, 0).EndLoopIndex = 1

(* C29.  The output stream grows only by a '.' that succeeds, and then by  *)
(* the one byte the current cell holds at that moment: the stream is the   *)
(* values of the current cell at the '.' that have run, in their order.    *)
(* '.' changes neither the tape nor the pointer, also when it fails.       *)
C29_OutputIsTheCellsPrinted ==
    [][ /\ (outStream' # outStream) =>
              /\ gpc = "Execute"
              /\ Cmd(Instruction) = "."
        /\ Ran(".") => outStream' = Append(outStream, At(cells, index))
        /\ (gpc = "Execute" /\ gpc' # gpc /\ Cmd(Instruction) = ".") =>
              /\ cells' = cells
              /\ index' = index
              /\ inStream' = inStream
        /\ FailedPrint => outStream' = outStream
      ]_vars

\* .+. on the fresh tape
C29_Witness ==
    /\ source = <<".", "+", ".">>
    /\ RunCompleted
    /\ outStream = <<0, 1>>
    /\ cells = <<1>>

(* C30.  The k-th ',' that succeeds stores the k-th byte of the input      *)
(* stream into the current cell and takes that one byte off the stream;    *)
(* what is left unread is always the input from byte k + 1 on, and nothing *)
(* but a ',' takes a byte off the stream.                                  *)
C30_InputInStreamOrder ==
    [][ /\ (inStream' # inStream) =>
              /\ gpc = "Execute"
              /\ Cmd(Instruction) = ","
        /\ Ran(",") =>
              LET k == Len(input) - Len(inStream) + 1 IN
                  /\ k <= Len(input)
                  /\ cells' = [cells EXCEPT ![index + 1] = input[k]]
                  /\ index' = index
                  /\ inStream' = SubSeq(input, k + 1, Len(input))
        /\ inStream' =
              SubSeq(input, Len(input) - Len(inStream') + 1, Len(input))
      ]_vars

\* ,>, on the input 65 255
C30_Witness ==
    /\ source = <<",", ">", ",">>
    /\ input = <<65, 255>>
    /\ RunCompleted
    /\ cells = <<65, 255>>
    /\ inStream = <<>>

---------------------------------------------------------------------------
(* C31: the Runtime NewRuntime returns.                                    *)

\* the Runtime has been built and Execute has not been called on it
Fresh == pc = "Execute"

---------------------------------------------------------------------------
(* C32: what one instruction may change of the tape and the cell index.    *)

\* the instructions that write cells[index]
CellWriters == {"+", "-", ","}

\* C32: the run of one instruction keeps every cell of the tape but the one
\* at the cell index, which only '+', '-' and ',' change; '>', '<', '[', ']'
\* and '.' change no cell there is; the cell index moves only by '>', one up,
\* and by '<', one down.
C32_FrameEffect ==
    [][gpc = "Execute" =>
          LET c == Cmd(Instruction) IN
             /\ Len(cells') >= Len(cells)
             /\ \A k \in 1 .. Len(cells) :
                   cells'[k] # cells[k] =>
                      k = index + 1 /\ c \in CellWriters
             /\ index' # index =>
                   \/ c = ">" /\ index' = index + 1
                   \/ c = "<" /\ index' = index - 1]_vars

\* '>' has run next to a cell that an earlier instruction had written
C32_Witness ==
    /\ gpc = "HasNext"
    /\ instIndex = 2
    /\ Cmd(At(instructions, 1)) = ">"
    /\ index = 1
    /\ Len(cells) = 2
    /\ cells[1] # 0

---------------------------------------------------------------------------
(* C33: the program Compile returns, read back through Cmd.                *)

\* Cmd() of each instruction of the program, in order
Cmds(instrs) == [k \in 1 .. Len(instrs) |-> Cmd(instrs[k])]

---------------------------------------------------------------------------
(* C34: when Execute returns nil.                                          *)

\* an instruction returns an error to the run loop
FailedInstruction == gpc = "Execute" /\ gpc' = "exited"

\* Execute returns nil to its caller
ReturnsNil == pc = "select" /\ pc' = "returned" /\ ret' = NilError

\* C34: Execute returns nil only once the run loop has run out of
\* instructions: the instruction index is then at least len(instructions),
\* the loop has ended and no instruction has failed.  The error of a failed
\* instruction is in errChan from the failure on until Execute returns, and
\* Execute then returns it or DeadlineExceeded, never nil.
C34_NilOnlyOnExhaustion ==
    [][ /\ ReturnsNil =>
              /\ gpc = "exited"
              /\ ~HasNext(instIndex, instructions)
              /\ errChan = <<>>
              /\ UNCHANGED <<cells, index, instIndex, inStream, outStream>>
        /\ FailedInstruction => errChan' # <<>>
        /\ (errChan # <<>> /\ pc = "select") =>
              \/ errChan' = errChan /\ pc' = "select"
              \/ pc' = "returned" /\ ret' \in {Head(errChan), DeadlineExceeded}
      ]_vars

\* Execute has returned nil for a program whose '.' wrote a byte
C34_Witness ==
    /\ pc = "returned"
    /\ ret = NilError
    /\ Len(instructions) = 2
    /\ Len(outStream) = 1
    /\ instIndex = 2

---------------------------------------------------------------------------
(* C35: the run loop of a run without a step channel comes to its end,     *)
(* whether or not the caller of Execute is still in its select.            *)

\* a reader and a writer that never fail before the end of the input
HealthyEnv == [input |-> input, writes |-> -1, reads |-> -1]

\* the run loop, run alone on this program and input, leaves its loop within
\* MaxSteps passes: by running out of instructions, by a failed instruction
\* or by a panic
Halts ==
    RunToEnd(instructions, RunStart(input), HealthyEnv, MaxSteps).state
        # "running"

\* C35: without a step channel, the run loop of a program whose execution
\* halts or fails ends, also after Execute has returned DeadlineExceeded to
\* its caller: the send of the error of a failed instruction does not wait
\* for a receiver.
C35_RunLoopEnds ==
    /\ (gpc \in {"HasNext", "Execute"} /\ Halts) ~> RunEnded
    /\ (gpc = "Execute" /\ Cmd(Instruction) = "," /\ inStream = <<>>
            /\ pc = "returned")
          ~> (Crashed \/ (gpc = "exited" /\ Len(errChan) = 1))

\* the error of a failed ',' is in errChan and the run loop has ended,
\* Execute having returned DeadlineExceeded before
C35_Witness ==
    /\ pc = "returned"
    /\ ret = DeadlineExceeded
    /\ gpc = "exited"
    /\ errChan = <<NewError(ErrReadSymbol, "EOF")>>
    /\ waitChan = NilChan

---------------------------------------------------------------------------
(* C36: the instruction index cli.Debug reads when it renders a frame.     *)

\* the controller renders a frame: it calls r.Instruction()
Renders == dpc = "render" /\ dpc' # dpc

\* C36: whenever the controller of a debug run reads the current
\* instruction to render a frame, the instruction index is an index of the
\* program, also for the frame after the last instruction has run.
C36_RenderReadsAnInstruction ==
    [][Renders => InRange(instIndex, instructions)]_vars

---------------------------------------------------------------------------
(* C37: how far the run loop is behind the tokens when a frame is drawn.   *)

\* C37: when the controller of a debug run renders a frame having sent k
\* tokens, the run loop has executed at least k - 1 and at most k
\* instructions.
C37_StaleByAtMostOne ==
    [][Renders => (started <= sent /\ started >= sent - 1)]_vars

---------------------------------------------------------------------------
(* C38: Execute called on a Runtime whose run before has completed.        *)

\* Execute is called on a Runtime whose call before returned nil
CalledAfterCompletion ==
    pc = "returned" /\ ret = NilError /\ pc' = "select"

\* a later call is in progress on a program that has no instruction left
\* and no error to hand over
NothingLeft ==
    /\ calls >= 2
    /\ pc = "select"
    /\ ~HasNext(instIndex, instructions)
    /\ errChan = <<>>

\* C38: Execute called again on a Runtime whose run before completed
\* executes no instruction, leaves the tape, the cell index, the instruction
\* index and both streams as they are, and returns nil unless the context
\* is done.
C38_ExecuteAgainOnCompleted ==
    [][ /\ CalledAfterCompletion =>
              /\ NothingLeft'
              /\ UNCHANGED <<cells, index, instIndex, inStream, outStream>>
        /\ NothingLeft =>
              /\ gpc' # "Execute"
              /\ UNCHANGED <<cells, index, instIndex, inStream, outStream>>
              /\ (pc' = "select") => NothingLeft'
              /\ (pc' = "returned") =>
                    \/ ret' = NilError
                    \/ ctxDone /\ ret' = DeadlineExceeded
      ]_vars

\* the second call on the Runtime of +. has returned nil, the byte the first
\* call wrote being all the output
C38_Witness ==
    /\ source = <<"+", ".">>
    /\ ctxKind = "Background"
    /\ calls = 2
    /\ pc = "returned"
    /\ ret = NilError
    /\ outStream = <<1>>
    /\ cells = <<1>>
    /\ instIndex = 2

=============================================================================
